---- MODULE Spec2Model ----
(***************************************************************************)
(* week3assignment.py: a linear script over pandas / geopandas tables.     *)
(* It reads two ACS survey extracts, derives the share of transit          *)
(* commuters per census tract, ranks and summarises it, joins it to the    *)
(* tract polygons and draws choropleth maps.                               *)
(*                                                                         *)
(* Every executable cell that changes a variable of the script is one      *)
(* action (In3, In8, ...), named after the cell marker "In[n]" of the      *)
(* source.  Cells that only display something (head, sample, tail, info,   *)
(* shape, boxplot) change no state and are not actions.                    *)
(*                                                                         *)
(* Values.  A float64 is the pair <<n, d>>: d > 0 is the reduced fraction  *)
(* n/d, <<1,0>> is +inf, <<-1,0>> is -inf and <<0,0>> is NaN.  Rounding is *)
(* not modelled: IEEE division is correctly rounded, so equal quotients    *)
(* give equal floats and the order of quotients is kept.  A string of      *)
(* digits (GEO_ID, CT20, FIPS) is the sequence of its digits, so that      *)
(* leading zeros and concatenation are what they are in the script.        *)
(***************************************************************************)
EXTENDS Integers, Sequences, FiniteSets, TLC

\* ------------------------------------------------------------------ bounds
\* rows of a survey extract
MaxRows == 2
\* largest commuter count of a row
MaxCount == 2
\* rows of a survey extract whose percentages are whole (2.0, 4.0, 6.0, NaN)
MaxStatRows == 5
\* features of the tract polygon file
MaxTracts == 2

\* ------------------------------------------------------------------ floats
NaN == <<0, 0>>
Inf == <<1, 0>>

RECURSIVE GCD(_, _)
GCD(a, b) == IF b = 0 THEN a ELSE GCD(b, a % b)

Abs(x) == IF x < 0 THEN -x ELSE x

\* the float n/d for d # 0, reduced, with a positive denominator
Norm(n, d) ==
    LET s == IF d < 0 THEN -1 ELSE 1
        g == GCD(Abs(n), Abs(d))
    IN  <<(s * n) \div g, (s * d) \div g>>

FromInt(i) == <<i, 1>>

IsNaN(x) == x = NaN
IsInf(x) == x[2] = 0 /\ x[1] # 0
IsFinite(x) == x[2] > 0
Sign(x) == IF x[1] < 0 THEN -1 ELSE 1

\* float64 a / b
FDiv(a, b) ==
    IF IsNaN(a) \/ IsNaN(b) THEN NaN
    ELSE IF IsInf(a) THEN (IF IsInf(b) THEN NaN ELSE <<Sign(a) * Sign(b), 0>>)
    ELSE IF IsInf(b) THEN <<0, 1>>
    ELSE IF b[1] = 0 THEN (IF a[1] = 0 THEN NaN ELSE <<Sign(a), 0>>)
    ELSE Norm(a[1] * b[2], a[2] * b[1])

\* float64 a * b
FMul(a, b) ==
    IF IsNaN(a) \/ IsNaN(b) THEN NaN
    ELSE IF IsInf(a) \/ IsInf(b)
         THEN (IF a[1] = 0 \/ b[1] = 0 THEN NaN ELSE <<Sign(a) * Sign(b), 0>>)
    ELSE Norm(a[1] * b[1], a[2] * b[2])

\* float64 a + b
FAdd(a, b) ==
    IF IsNaN(a) \/ IsNaN(b) THEN NaN
    ELSE IF IsInf(a) /\ IsInf(b) THEN (IF a = b THEN a ELSE NaN)
    ELSE IF IsInf(a) THEN a
    ELSE IF IsInf(b) THEN b
    ELSE Norm(a[1] * b[2] + b[1] * a[2], a[2] * b[2])

FNeg(a) == <<-a[1], a[2]>>
FSub(a, b) == FAdd(a, FNeg(b))

\* a < b on floats; false when either is NaN
FLt(a, b) ==
    IF IsNaN(a) \/ IsNaN(b) THEN FALSE
    ELSE IF IsInf(a) /\ IsInf(b) THEN a[1] < b[1]
    ELSE IF IsInf(a) THEN a[1] < 0
    ELSE IF IsInf(b) THEN b[1] > 0
    ELSE a[1] * b[2] < b[1] * a[2]

FLe(a, b) == ~IsNaN(a) /\ ~IsNaN(b) /\ ~FLt(b, a)

\* ----------------------------------------------------------------- strings
Range(s) == {s[i] : i \in 1..Len(s)}

\* the position of x in the duplicate-free sequence s
Pos(s, x) == CHOOSE i \in 1..Len(s) : s[i] = x

RECURSIVE ParseInt(_)
\* the integer a digit string denotes: what read_csv makes of a column of
\* digits when no dtype is given (leading zeros are lost)
ParseInt(s) ==
    IF s = <<>> THEN 0
    ELSE 10 * ParseInt(SubSeq(s, 1, Len(s) - 1)) + s[Len(s)]

\* ------------------------------------------------------------- data frames
\* A DataFrame: its column labels in order, its index labels in order, and
\* one record per row mapping each column label to the cell.
Frame(cols, idx, rows) == [columns |-> cols, index |-> idx, data |-> rows]

\* the default RangeIndex 0 .. n-1
RangeIndex(n) == [i \in 1..n |-> i - 1]

EmptyFrame == Frame(<<>>, <<>>, <<>>)

NRows(df) == Len(df.data)

\* df[c] as the sequence of its cells
Column(df, c) == [i \in 1..NRows(df) |-> df.data[i][c]]


\* A Series: index labels and values, position by position
Series(idx, vals) == [index |-> idx, values |-> vals]

\* df[c] for one column label
GetCol(df, c) == Series(df.index, Column(df, c))

\* ---------------------------------------------------------------- read_csv
\* The columns of the extracts the script names (the real files hold 45).
CsvHeader == <<"GEO_ID", "NAME", "B08301_001E", "B08301_010E">>

\* pd.read_csv(path, dtype): a column of digit strings is parsed as int64
\* unless dtype forces it to str; the count columns are int64, NAME is text.
\* A file is [header, records]; a count cell is written as the integer it
\* denotes, the GEO_ID cell as its digits.
read_csv(file, dtype) ==
    Frame(file.header, RangeIndex(Len(file.records)),
          [i \in 1..Len(file.records) |->
              [c \in Range(file.header) |->
                  IF c = "GEO_ID" /\ c \notin dtype
                  THEN ParseInt(file.records[i][c])
                  ELSE file.records[i][c]]])

\* ------------------------------------------------------------- df[[cols]]
\* the silent variant: a missing column is filled, nothing is raised
GetItemFilling(df, cols) ==
    [raised |-> "",
     value |-> Frame(cols, df.index,
                     [i \in 1..NRows(df) |->
                         [c \in Range(cols) |->
                             IF c \in Range(df.columns) THEN df.data[i][c]
                             ELSE IF c = "GEO_ID" THEN <<>> ELSE 0]])]

\* df[cols] with a list of labels: KeyError when a label is no column of df,
\* else the columns in the order asked for, the index kept
GetItem(df, cols) ==
    IF ~(Range(cols) \subseteq Range(df.columns))
    THEN [raised |-> "KeyError", value |-> EmptyFrame]
    ELSE [raised |-> "",
          value |-> Frame(cols, df.index,
                          [i \in 1..NRows(df) |->
                              [c \in Range(cols) |-> df.data[i][c]]])]

\* ------------------------------------------------------ series arithmetic
\* the variant that makes every zero denominator missing
SeriesDivMissingOnZero(a, b) ==
    Series(a.index,
           [i \in 1..Len(a.values) |->
               IF b.values[i] = 0 THEN NaN
               ELSE FDiv(FromInt(a.values[i]), FromInt(b.values[i]))])

\* int64 / int64 is true division in float64: x/0 is inf, 0/0 is NaN
SeriesDiv(a, b) ==
    Series(a.index,
           [i \in 1..Len(a.values) |->
               FDiv(FromInt(a.values[i]), FromInt(b.values[i]))])

SeriesMul(a, k) ==
    Series(a.index, [i \in 1..Len(a.values) |-> FMul(a.values[i], FromInt(k))])

\* str + Series of str: the prefix before every value
SeriesPrefix(p, a) ==
    Series(a.index, [i \in 1..Len(a.values) |-> p \o a.values[i]])

\* df[c] = series: the values are aligned to df's index labels; a label the
\* series lacks gets NaN; a new column goes last
SetItem(df, c, s) ==
    LET cell(i) ==
            IF \E k \in 1..Len(s.index) : s.index[k] = df.index[i]
            THEN s.values[CHOOSE k \in 1..Len(s.index) : s.index[k] = df.index[i]]
            ELSE NaN
        cols == IF c \in Range(df.columns) THEN df.columns
                ELSE Append(df.columns, c)
    IN  Frame(cols, df.index,
              [i \in 1..NRows(df) |->
                  [x \in Range(cols) |-> IF x = c THEN cell(i) ELSE df.data[i][x]]])

\* df.columns = names: the labels are replaced position by position
SetColumns(df, names) ==
    Frame(names, df.index,
          [i \in 1..NRows(df) |->
              [x \in Range(names) |-> df.data[i][df.columns[Pos(names, x)]]]])

\* ------------------------------------------------------------------- rank
\* the variant with method = 'first': ties are ranked in order of appearance
RankFirst(s) ==
    LET v == s.values
        r(i) == IF IsNaN(v[i]) THEN NaN
                ELSE FromInt(Cardinality({j \in 1..Len(v) : FLt(v[i], v[j])})
                             + Cardinality({j \in 1..i : v[j] = v[i]}))
    IN  Series(s.index, [i \in 1..Len(v) |-> r(i)])

\* Series.rank(ascending = 0): method = 'average', na_option = 'keep'.  A
\* value's rank is the mean of the positions 1.. its group of equal values
\* takes when the values are put in descending order; NaN is ranked NaN.
Rank(s) ==
    LET v == s.values
        greater(i) == Cardinality({j \in 1..Len(v) : FLt(v[i], v[j])})
        equal(i) == Cardinality({j \in 1..Len(v) : v[j] = v[i]})
        r(i) == IF IsNaN(v[i]) THEN NaN
                ELSE Norm(2 * greater(i) + equal(i) + 1, 2)
    IN  Series(s.index, [i \in 1..Len(v) |-> r(i)])

\* -------------------------------------------------------------- set_index
\* df.set_index(c): column c becomes the index and is no column any more
set_index(df, c) ==
    LET cols == SelectSeq(df.columns, LAMBDA x : x # c)
    IN  Frame(cols, Column(df, c),
              [i \in 1..NRows(df) |-> [x \in Range(cols) |-> df.data[i][x]]])

\* the rows of df at the positions p[1], p[2], ...
Take(df, p) ==
    Frame(df.columns,
          [i \in 1..Len(p) |-> df.index[p[i]]],
          [i \in 1..Len(p) |-> df.data[p[i]]])

\* Index.is_monotonic_increasing: no NaN, and never decreasing
IsMonotonicIncreasing(idx) ==
    /\ \A i \in 1..Len(idx) : ~IsNaN(idx[i])
    /\ \A i \in 1..(Len(idx) - 1) : FLe(idx[i], idx[i + 1])

\* the variant with na_position = 'first'
SortedByNaFirst(idx, p) ==
    \A i \in 1..(Len(idx) - 1) :
        \/ IsNaN(idx[p[i]])
        \/ (~IsNaN(idx[p[i + 1]]) /\ FLe(idx[p[i]], idx[p[i + 1]]))

\* idx read through p is ascending with the NaN labels last
SortedBy(idx, p) ==
    \A i \in 1..(Len(idx) - 1) :
        \/ IsNaN(idx[p[i + 1]])
        \/ (~IsNaN(idx[p[i]]) /\ FLe(idx[p[i]], idx[p[i + 1]]))

\* df.sort_index(): ascending, na_position = 'last', kind = 'quicksort'.
\* An index that is already monotonic is left as it is.  Otherwise the rows
\* are put in ascending order of their labels; quicksort is not stable, so
\* rows with equal labels (and the NaN rows) may come out in any order: the
\* set of the frames sort_index may return.
sort_index(df) ==
    IF IsMonotonicIncreasing(df.index) THEN {df}
    ELSE {Take(df, [i \in 1..NRows(df) |-> p[i]]) :
              p \in {q \in Permutations(1..NRows(df)) : SortedBy(df.index, q)}}

\* ------------------------------------------------------ summary statistics
\* the values of a series that are not NaN, in order (skipna = True)
DropNaN(v) == SelectSeq(v, LAMBDA x : ~IsNaN(x))

\* the variant that reads a missing value as 0.0
FillNaN(v) == [i \in 1..Len(v) |-> IF IsNaN(v[i]) THEN <<0, 1>> ELSE v[i]]

\* the values a reduction is taken over
Valid(v) == DropNaN(v)

RECURSIVE FSum(_)
FSum(v) == IF v = <<>> THEN <<0, 1>> ELSE FAdd(FSum(Tail(v)), Head(v))

RECURSIVE Insert(_, _)
\* x put into the ascending sequence s
Insert(x, s) ==
    IF s = <<>> THEN <<x>>
    ELSE IF FLe(x, Head(s)) THEN <<x>> \o s
    ELSE <<Head(s)>> \o Insert(x, Tail(s))

RECURSIVE Sorted(_)
\* the values of v (none NaN) in ascending order
Sorted(v) == IF v = <<>> THEN <<>> ELSE Insert(Head(v), Sorted(Tail(v)))

\* Series.count(): the number of values that are not NaN
SeriesCount(s) == Len(Valid(s.values))

\* Series.mean(): the sum of the valid values over their number; NaN if none
SeriesMean(s) ==
    LET v == Valid(s.values)
    IN  IF v = <<>> THEN NaN ELSE FDiv(FSum(v), FromInt(Len(v)))

\* Series.median(): the middle valid value, or the mean of the two middle ones
SeriesMedian(s) ==
    LET v == Sorted(Valid(s.values))
        n == Len(v)
    IN  IF n = 0 THEN NaN
        ELSE IF n % 2 = 1 THEN v[(n + 1) \div 2]
        ELSE FDiv(FAdd(v[n \div 2], v[n \div 2 + 1]), FromInt(2))

\* Series.var(ddof = 1): the squared deviations from the mean, summed, over
\* count - 1; NaN when fewer than two values are valid
SeriesVar(s) ==
    LET v == Valid(s.values)
        n == Len(v)
        avg == FDiv(FSum(v), FromInt(n))
        sq == [i \in 1..n |-> FMul(FSub(avg, v[i]), FSub(avg, v[i]))]
    IN  IF n < 2 THEN NaN ELSE FDiv(FSum(sq), FromInt(n - 1))

\* numpy's linear interpolation between the neighbours a <= b of a quantile
Lerp(a, b, t) ==
    LET diff == FSub(b, a)
    IN  IF FLe(<<1, 2>>, t)
        THEN FSub(b, FMul(diff, FSub(<<1, 1>>, t)))
        ELSE FAdd(a, FMul(diff, t))

\* the quantile num/den of the ascending values v, interpolation = 'linear'
QuantileOf(v, num, den) ==
    LET n == Len(v)
        lo == ((n - 1) * num) \div den
        hi == IF lo + 1 > n - 1 THEN n - 1 ELSE lo + 1
        t == Norm(((n - 1) * num) % den, den)
    IN  IF n = 0 THEN NaN ELSE Lerp(v[lo + 1], v[hi + 1], t)

\* Series.describe() of a float column: count, mean, std, min, the quartiles
\* and max of the valid values.  std is the square root of var; a square
\* root is no fraction, so the entry is kept as var, its square.
describe(s) ==
    LET v == Sorted(Valid(s.values))
    IN  [count |-> SeriesCount(s),
         mean |-> SeriesMean(s),
         var |-> SeriesVar(s),
         min |-> IF v = <<>> THEN NaN ELSE v[1],
         q25 |-> QuantileOf(v, 1, 4),
         q50 |-> QuantileOf(v, 1, 2),
         q75 |-> QuantileOf(v, 3, 4),
         max |-> IF v = <<>> THEN NaN ELSE v[Len(v)]]

\* ----------------------------------------------------------- geopandas
\* The properties of a tract feature the script names, and its polygon.
GeoHeader == <<"CT20", "LABEL", "geometry">>

\* gpd.read_file(path): one row per feature, its properties and its geometry
read_file(file) ==
    Frame(GeoHeader, RangeIndex(Len(file)),
          [i \in 1..Len(file) |-> [c \in Range(GeoHeader) |-> file[i][c]]])

\* the variant that keeps the left rows without a match (how = 'left')
MergeLeft(left, right, on) ==
    LET rcols == SelectSeq(right.columns, LAMBDA x : x # on)
        cols == left.columns \o rcols
        hits(i) == SelectSeq([k \in 1..NRows(right) |-> k],
                             LAMBDA k : right.data[k][on] = left.data[i][on])
        row(i, k) == [c \in Range(cols) |->
                         IF c \in Range(left.columns) THEN left.data[i][c]
                         ELSE IF k = 0 THEN NaN ELSE right.data[k][c]]
        F[i \in 0..NRows(left)] ==
            IF i = 0 THEN <<>>
            ELSE F[i - 1] \o (IF hits(i) = <<>> THEN <<row(i, 0)>>
                              ELSE [j \in 1..Len(hits(i)) |-> row(i, hits(i)[j])])
        rows == F[NRows(left)]
    IN  Frame(cols, RangeIndex(Len(rows)), rows)

\* left.merge(right, on = key): the inner join.  One row for every pair of
\* a left row and a right row with equal keys, in the order of the left rows
\* and, for one left row, of the right rows; the columns of left, then those
\* of right without the key; right's index is dropped, the result gets a
\* fresh RangeIndex.
Merge(left, right, on) ==
    LET rcols == SelectSeq(right.columns, LAMBDA x : x # on)
        cols == left.columns \o rcols
        hits(i) == SelectSeq([k \in 1..NRows(right) |-> k],
                             LAMBDA k : right.data[k][on] = left.data[i][on])
        row(i, k) == [c \in Range(cols) |->
                         IF c \in Range(left.columns) THEN left.data[i][c]
                         ELSE right.data[k][c]]
        F[i \in 0..NRows(left)] ==
            IF i = 0 THEN <<>>
            ELSE F[i - 1] \o [j \in 1..Len(hits(i)) |-> row(i, hits(i)[j])]
        rows == F[NRows(left)]
    IN  Frame(cols, RangeIndex(Len(rows)), rows)

\* Series.notnull(): true where the value is not NaN (inf is not null)
notnull(s) == [i \in 1..Len(s.values) |-> ~IsNaN(s.values[i])]

\* df[mask]: the rows where the mask is true, with their index labels
BoolIndex(df, mask) ==
    Take(df, SelectSeq([i \in 1..NRows(df) |-> i], LAMBDA i : mask[i]))

\* folium.Choropleth(geo_data = t, data = t, key_on = 'feature.properties.FIPS',
\* columns = ['FIPS', 'Percent Transit Users']): one polygon per row of
\* geo_data; the colour of a polygon is looked up by its FIPS in the dict
\* built from the two data columns (for a key given twice the last row wins).
Choropleth(geo_data, data, legend) ==
    LET keys == Range(Column(data, "FIPS"))
        last(k) == CHOOSE i \in 1..NRows(data) :
                       /\ data.data[i]["FIPS"] = k
                       /\ \A j \in (i + 1)..NRows(data) : data.data[j]["FIPS"] # k
    IN  [features |-> [i \in 1..NRows(geo_data) |->
                          [FIPS |-> geo_data.data[i]["FIPS"],
                           geometry |-> geo_data.data[i]["geometry"]]],
         color_data |-> [k \in keys |-> data.data[last(k)]["Percent Transit Users"]],
         legend_name |-> legend]

\* ------------------------------------------------------------------ state
VARIABLES
    file22,             \* Census_Data/ACS_22.csv
    file10,             \* Census_Data/ACS_10.csv
    geojson,            \* Census_Data/Census_Tracts_2020-Copy1.geojson
    pc,                 \* the cell that runs next
    raised,             \* the exception that ended the run, "" if none
    ACS_22, ACS_10,
    ACS_22B, ACS_10B,
    tracts, tracts2,
    tracts_transit22, tracts_transit10,
    tracts_transit22b, tracts_transit10b,
    Out,                \* what the statistics cells displayed
    m                   \* the map drawn last

vars == <<file22, file10, geojson, pc, raised, ACS_22, ACS_10, ACS_22B, ACS_10B,
          tracts, tracts2, tracts_transit22, tracts_transit10,
          tracts_transit22b, tracts_transit10b, Out, m>>

\* The cells that assign, in the order the script runs them; LastCell is the
\* empty cell that ends it.
Cells == <<3, 8, 9, 14, 15, 18, 19, 22, 23, 26, 27, 28, 29, 31, 32, 33, 34,
           36, 37, 38, 39, 41, 42, 43, 44, 45>>
LastCell == 46
After(c) == IF Pos(Cells, c) = Len(Cells) THEN LastCell ELSE Cells[Pos(Cells, c) + 1]

\* cell c is the next to run, and no exception has ended the run
At(c) == pc = c /\ raised = ""

\* cell c has run to its end
Ran(c) == pc > c

\* the cells that display a statistic
StatCells == {28, 29, 31, 32, 33, 34}

NoMap == [features |-> <<>>, color_data |-> <<>>, legend_name |-> ""]

\* ------------------------------------------------------------ input files
StatePrefix == <<0, 6>>
CountyPrefix == <<0, 3, 7>>

\* the GEO_ID of the tract with short code c
TractId(c) == StatePrefix \o CountyPrefix \o c

CsvRow(id, transit, total) ==
    [GEO_ID |-> id, NAME |-> "Census Tract",
     B08301_001E |-> total, B08301_010E |-> transit]

\* a file with the full header; row i is tract <<i>> with the counts cs[i]
CsvOfCounts(cs) ==
    [header |-> CsvHeader,
     records |-> [i \in 1..Len(cs) |-> CsvRow(TractId(<<i>>), cs[i][1], cs[i][2])]]

\* a file with the full header; row i has the identifier ids[i] and i transit
\* commuters out of i + 1
CsvOfIds(ids) ==
    [header |-> CsvHeader,
     records |-> [i \in 1..Len(ids) |-> CsvRow(ids[i], i, i + 1)]]

\* file f without the columns in gone
CsvWithout(f, gone) ==
    LET h == SelectSeq(f.header, LAMBDA c : c \notin gone)
    IN  [header |-> h,
         records |-> [i \in 1..Len(f.records) |-> [c \in Range(h) |-> f.records[i][c]]]]

\* a polygon file: feature i has the short code cs[i] and polygon number i
GeoOfCodes(cs) ==
    [i \in 1..Len(cs) |-> [CT20 |-> cs[i], LABEL |-> "tract", geometry |-> i]]

SeqsUpTo(S, n) == UNION {[1..k -> S] : k \in 0..n}

Counts == 0..MaxCount
\* <<transit, total>> with percentages NaN, 2.0, 4.0, 6.0 and 8.0
WholePairs == {<<0, 0>>, <<1, 50>>, <<2, 50>>, <<3, 50>>, <<4, 50>>}
\* identifiers with and without their leading zero
GeoIds == {TractId(<<1>>), TractId(<<2>>), <<6, 0, 3, 7, 1>>}
Codes == {<<1>>, <<2>>}

Sample22 == CsvOfCounts(<<<<1, 2>>, <<0, 0>>>>)
Sample10 == CsvOfCounts(<<<<1, 1>>>>)
SampleGeo == GeoOfCodes(<<<<1>>, <<2>>>>)

\* The inputs of a run, family by family.
\* the counts vary; the rows are listed by transit count, then by total
InputsCounts ==
    {<<CsvOfCounts(cs), Sample10, SampleGeo>> :
        cs \in {c \in SeqsUpTo(Counts \X Counts, MaxRows) :
                  \A i \in 1..(Len(c) - 1) :
                      \/ c[i][1] < c[i + 1][1]
                      \/ (c[i][1] = c[i + 1][1] /\ c[i][2] <= c[i + 1][2])}}
\* the identifiers and the polygon file vary
InputsKeys ==
    {<<CsvOfIds(ids), Sample10, GeoOfCodes(g)>> :
        ids \in SeqsUpTo(GeoIds, MaxRows), g \in SeqsUpTo(Codes, MaxTracts)}
\* longer columns of whole percentages: the defined percentages differ from
\* one another, and at most two tracts have no commuters
InputsWhole ==
    {<<CsvOfCounts(cs), Sample10, SampleGeo>> :
        cs \in {c \in SeqsUpTo(WholePairs, MaxStatRows) :
                  /\ \A i, j \in 1..Len(c) : (i < j /\ c[i] = c[j]) => c[i] = <<0, 0>>
                  /\ Cardinality({i \in 1..Len(c) : c[i] = <<0, 0>>}) <= 2}}
\* a file lacks columns, but not all of them
Gone == (SUBSET Range(CsvHeader)) \ {Range(CsvHeader)}
InputsHeaders ==
    {<<CsvWithout(Sample22, gone), Sample10, SampleGeo>> : gone \in Gone}
    \cup {<<Sample22, CsvWithout(Sample10, gone), SampleGeo>> : gone \in Gone}
\* the 2010 extract varies
Inputs2010 ==
    {<<Sample22, CsvOfCounts(cs), SampleGeo>> :
        cs \in SeqsUpTo({<<0, 0>>, <<1, 2>>, <<1, 1>>}, MaxRows)}

Inputs == InputsCounts \cup InputsKeys \cup InputsWhole \cup InputsHeaders \cup Inputs2010

Init ==
    /\ \E in \in Inputs : file22 = in[1] /\ file10 = in[2] /\ geojson = in[3]
    /\ pc = Cells[1]
    /\ raised = ""
    /\ ACS_22 = EmptyFrame /\ ACS_10 = EmptyFrame
    /\ ACS_22B = EmptyFrame /\ ACS_10B = EmptyFrame
    /\ tracts = EmptyFrame /\ tracts2 = EmptyFrame
    /\ tracts_transit22 = EmptyFrame /\ tracts_transit10 = EmptyFrame
    /\ tracts_transit22b = EmptyFrame /\ tracts_transit10b = EmptyFrame
    /\ Out = [c \in StatCells |-> <<>>]
    /\ m = NoMap

\* ---------------------------------------------------------------- cells
\* In[3]: both extracts are read with no dtype
In3 ==
    /\ At(3)
    /\ ACS_22' = read_csv(file22, {})
    /\ ACS_10' = read_csv(file10, {})
    /\ pc' = After(3)
    /\ UNCHANGED <<file22, file10, geojson, raised, ACS_22B, ACS_10B, tracts, tracts2,
                   tracts_transit22, tracts_transit10, tracts_transit22b,
                   tracts_transit10b, Out, m>>

\* In[8]: ACS_22.csv again, GEO_ID as str
In8 ==
    /\ At(8)
    /\ ACS_22' = read_csv(file22, {"GEO_ID"})
    /\ pc' = After(8)
    /\ UNCHANGED <<file22, file10, geojson, raised, ACS_10, ACS_22B, ACS_10B, tracts,
                   tracts2, tracts_transit22, tracts_transit10, tracts_transit22b,
                   tracts_transit10b, Out, m>>

\* the file In[9] names: 'Census_Data/ACS_22.csv'
PathIn9 == file22

\* In[9]: ACS_10 is read, GEO_ID as str
In9 ==
    /\ At(9)
    /\ ACS_10' = read_csv(PathIn9, {"GEO_ID"})
    /\ pc' = After(9)
    /\ UNCHANGED <<file22, file10, geojson, raised, ACS_22, ACS_22B, ACS_10B, tracts,
                   tracts2, tracts_transit22, tracts_transit10, tracts_transit22b,
                   tracts_transit10b, Out, m>>

columns_to_keep == <<"GEO_ID", "B08301_010E", "B08301_001E">>
columns_to_keep2 == <<"GEO_ID", "B08301_010E", "B08301_001E">>

\* In[14]: the three columns of the 2022 table; a KeyError ends the run
In14 ==
    /\ At(14)
    /\ LET r == GetItem(ACS_22, columns_to_keep)
       IN  IF r.raised # ""
           THEN raised' = r.raised /\ UNCHANGED <<pc, ACS_22B>>
           ELSE ACS_22B' = r.value /\ pc' = After(14) /\ UNCHANGED raised
    /\ UNCHANGED <<file22, file10, geojson, ACS_22, ACS_10, ACS_10B, tracts, tracts2,
                   tracts_transit22, tracts_transit10, tracts_transit22b,
                   tracts_transit10b, Out, m>>

\* In[15]: the three columns of the 2010 table
In15 ==
    /\ At(15)
    /\ LET r == GetItem(ACS_10, columns_to_keep2)
       IN  IF r.raised # ""
           THEN raised' = r.raised /\ UNCHANGED <<pc, ACS_10B>>
           ELSE ACS_10B' = r.value /\ pc' = After(15) /\ UNCHANGED raised
    /\ UNCHANGED <<file22, file10, geojson, ACS_22, ACS_10, ACS_22B, tracts, tracts2,
                   tracts_transit22, tracts_transit10, tracts_transit22b,
                   tracts_transit10b, Out, m>>

\* (df['B08301_010E'] / df['B08301_001E']) * 100
TransitPct(df) ==
    SeriesMul(SeriesDiv(GetCol(df, "B08301_010E"), GetCol(df, "B08301_001E")), 100)

\* In[18]: the percentage column of the 2022 table
In18 ==
    /\ At(18)
    /\ ACS_22B' = SetItem(ACS_22B, "transit_pct", TransitPct(ACS_22B))
    /\ pc' = After(18)
    /\ UNCHANGED <<file22, file10, geojson, raised, ACS_22, ACS_10, ACS_10B, tracts,
                   tracts2, tracts_transit22, tracts_transit10, tracts_transit22b,
                   tracts_transit10b, Out, m>>

\* In[19]: the percentage column of the 2010 table
In19 ==
    /\ At(19)
    /\ ACS_10B' = SetItem(ACS_10B, "transit_pct", TransitPct(ACS_10B))
    /\ pc' = After(19)
    /\ UNCHANGED <<file22, file10, geojson, raised, ACS_22, ACS_10, ACS_22B, tracts,
                   tracts2, tracts_transit22, tracts_transit10, tracts_transit22b,
                   tracts_transit10b, Out, m>>

NewNames == <<"FIPS", "Total Transit Users (excluding taxicabs)",
              "Total Commuters", "Percent Transit Users">>

\* In[22]: the column labels of the 2022 table
In22 ==
    /\ At(22)
    /\ ACS_22B' = SetColumns(ACS_22B, NewNames)
    /\ pc' = After(22)
    /\ UNCHANGED <<file22, file10, geojson, raised, ACS_22, ACS_10, ACS_10B, tracts,
                   tracts2, tracts_transit22, tracts_transit10, tracts_transit22b,
                   tracts_transit10b, Out, m>>

\* In[23]: the column labels of the 2010 table
In23 ==
    /\ At(23)
    /\ ACS_10B' = SetColumns(ACS_10B, NewNames)
    /\ pc' = After(23)
    /\ UNCHANGED <<file22, file10, geojson, raised, ACS_22, ACS_10, ACS_22B, tracts,
                   tracts2, tracts_transit22, tracts_transit10, tracts_transit22b,
                   tracts_transit10b, Out, m>>

\* df['Rank'] = df['Percent Transit Users'].rank(ascending = 0);
\* df = df.set_index('Rank'); df = df.sort_index(): the frames that may result
RankAndSort(df) ==
    sort_index(set_index(SetItem(df, "Rank", Rank(GetCol(df, "Percent Transit Users"))),
                         "Rank"))

\* In[26]: the 2022 table ranked and put in rank order
In26 ==
    /\ At(26)
    /\ ACS_22B' \in RankAndSort(ACS_22B)
    /\ pc' = After(26)
    /\ UNCHANGED <<file22, file10, geojson, raised, ACS_22, ACS_10, ACS_10B, tracts,
                   tracts2, tracts_transit22, tracts_transit10, tracts_transit22b,
                   tracts_transit10b, Out, m>>

\* In[27]: the 2010 table ranked and put in rank order
In27 ==
    /\ At(27)
    /\ ACS_10B' \in RankAndSort(ACS_10B)
    /\ pc' = After(27)
    /\ UNCHANGED <<file22, file10, geojson, raised, ACS_22, ACS_10, ACS_22B, tracts,
                   tracts2, tracts_transit22, tracts_transit10, tracts_transit22b,
                   tracts_transit10b, Out, m>>

\* the other frames and the map stay as they are
StatFrame == UNCHANGED <<file22, file10, geojson, raised, ACS_22, ACS_10, ACS_22B,
                         ACS_10B, tracts, tracts2, tracts_transit22, tracts_transit10,
                         tracts_transit22b, tracts_transit10b, m>>

\* In[28]: ACS_22B['Percent Transit Users'].mean()
In28 ==
    /\ At(28)
    /\ Out' = [Out EXCEPT ![28] = <<SeriesMean(GetCol(ACS_22B, "Percent Transit Users"))>>]
    /\ pc' = After(28)
    /\ StatFrame

\* In[29]: ACS_10B['Percent Transit Users'].mean()
In29 ==
    /\ At(29)
    /\ Out' = [Out EXCEPT ![29] = <<SeriesMean(GetCol(ACS_10B, "Percent Transit Users"))>>]
    /\ pc' = After(29)
    /\ StatFrame

\* In[31]: ACS_22B['Percent Transit Users'].median()
In31 ==
    /\ At(31)
    /\ Out' = [Out EXCEPT ![31] = <<SeriesMedian(GetCol(ACS_22B, "Percent Transit Users"))>>]
    /\ pc' = After(31)
    /\ StatFrame

\* In[32]: ACS_10B['Percent Transit Users'].median()
In32 ==
    /\ At(32)
    /\ Out' = [Out EXCEPT ![32] = <<SeriesMedian(GetCol(ACS_10B, "Percent Transit Users"))>>]
    /\ pc' = After(32)
    /\ StatFrame

\* In[33]: ACS_22B['Percent Transit Users'].describe()
In33 ==
    /\ At(33)
    /\ Out' = [Out EXCEPT ![33] = <<describe(GetCol(ACS_22B, "Percent Transit Users"))>>]
    /\ pc' = After(33)
    /\ StatFrame

\* In[34]: ACS_10B['Percent Transit Users'].describe()
In34 ==
    /\ At(34)
    /\ Out' = [Out EXCEPT ![34] = <<describe(GetCol(ACS_10B, "Percent Transit Users"))>>]
    /\ pc' = After(34)
    /\ StatFrame

\* In[36]: the polygon file is read twice
In36 ==
    /\ At(36)
    /\ tracts' = read_file(geojson)
    /\ tracts2' = read_file(geojson)
    /\ pc' = After(36)
    /\ UNCHANGED <<file22, file10, geojson, raised, ACS_22, ACS_10, ACS_22B, ACS_10B,
                   tracts_transit22, tracts_transit10, tracts_transit22b,
                   tracts_transit10b, Out, m>>

\* '06' + '037' + df['CT20']
FipsOf(df) == SeriesPrefix(StatePrefix \o CountyPrefix, GetCol(df, "CT20"))

\* In[37]: CT20 and geometry are kept and FIPS is added; the FIPS of tracts2
\* is computed from the CT20 of tracts (already cut down) and aligned to
\* tracts2 by index label
In37 ==
    /\ At(37)
    /\ LET t1 == GetItem(tracts, <<"CT20", "geometry">>).value
           t2 == GetItem(tracts2, <<"CT20", "geometry">>).value
           t1f == SetItem(t1, "FIPS", FipsOf(t1))
       IN  /\ tracts' = t1f
           /\ tracts2' = SetItem(t2, "FIPS", FipsOf(t1f))
    /\ pc' = After(37)
    /\ UNCHANGED <<file22, file10, geojson, raised, ACS_22, ACS_10, ACS_22B, ACS_10B,
                   tracts_transit22, tracts_transit10, tracts_transit22b,
                   tracts_transit10b, Out, m>>

\* In[38]: tracts.merge(ACS_22B, on = "FIPS")
In38 ==
    /\ At(38)
    /\ tracts_transit22' = Merge(tracts, ACS_22B, "FIPS")
    /\ pc' = After(38)
    /\ UNCHANGED <<file22, file10, geojson, raised, ACS_22, ACS_10, ACS_22B, ACS_10B,
                   tracts, tracts2, tracts_transit10, tracts_transit22b,
                   tracts_transit10b, Out, m>>

\* In[39]: tracts2.merge(ACS_10B, on = "FIPS")
In39 ==
    /\ At(39)
    /\ tracts_transit10' = Merge(tracts2, ACS_10B, "FIPS")
    /\ pc' = After(39)
    /\ UNCHANGED <<file22, file10, geojson, raised, ACS_22, ACS_10, ACS_22B, ACS_10B,
                   tracts, tracts2, tracts_transit22, tracts_transit22b,
                   tracts_transit10b, Out, m>>

\* the frames stay as they are
MapFrame == UNCHANGED <<file22, file10, geojson, raised, ACS_22, ACS_10, ACS_22B,
                        ACS_10B, tracts, tracts2, tracts_transit22, tracts_transit10,
                        tracts_transit22b, tracts_transit10b, Out>>

\* In[41]: the map of every joined 2022 row
In41 ==
    /\ At(41)
    /\ m' = Choropleth(tracts_transit22, tracts_transit22, "Percent Transit Users (2022)")
    /\ pc' = After(41)
    /\ MapFrame

\* In[42]: the map of every joined 2010 row
In42 ==
    /\ At(42)
    /\ m' = Choropleth(tracts_transit10, tracts_transit10, "Percent Transit Users (2010)")
    /\ pc' = After(42)
    /\ MapFrame

\* df[df['Percent Transit Users'].notnull()]
NotNullRows(df) == BoolIndex(df, notnull(GetCol(df, "Percent Transit Users")))

\* In[43]: the joined rows whose percentage is not null, for both years
In43 ==
    /\ At(43)
    /\ tracts_transit22b' = NotNullRows(tracts_transit22)
    /\ tracts_transit10b' = NotNullRows(tracts_transit10)
    /\ pc' = After(43)
    /\ UNCHANGED <<file22, file10, geojson, raised, ACS_22, ACS_10, ACS_22B, ACS_10B,
                   tracts, tracts2, tracts_transit22, tracts_transit10, Out, m>>

\* In[44]: the map of the filtered 2022 rows
In44 ==
    /\ At(44)
    /\ m' = Choropleth(tracts_transit22b, tracts_transit22b, "Percent Transit Users (2022)")
    /\ pc' = After(44)
    /\ MapFrame

\* In[45]: the map of the filtered 2010 rows
In45 ==
    /\ At(45)
    /\ m' = Choropleth(tracts_transit10b, tracts_transit10b, "Percent Transit Users (2010)")
    /\ pc' = After(45)
    /\ MapFrame

Next ==
    \/ In3 \/ In8 \/ In9 \/ In14 \/ In15 \/ In18 \/ In19 \/ In22 \/ In23
    \/ In26 \/ In27 \/ In28 \/ In29 \/ In31 \/ In32 \/ In33 \/ In34
    \/ In36 \/ In37 \/ In38 \/ In39 \/ In41 \/ In42 \/ In43 \/ In44 \/ In45

Spec == Init /\ [][Next]_vars

\* ======================================================================
\* Properties
\* ======================================================================
\* the label of the percentage, total and transit columns of df, before and
\* after the relabelling of In[22] / In[23]
PctCol(df) ==
    IF "transit_pct" \in Range(df.columns) THEN "transit_pct" ELSE "Percent Transit Users"
TotalCol(df) ==
    IF "B08301_001E" \in Range(df.columns) THEN "B08301_001E" ELSE "Total Commuters"
TransitCol(df) ==
    IF "B08301_010E" \in Range(df.columns) THEN "B08301_010E"
    ELSE "Total Transit Users (excluding taxicabs)"
IdCol(df) == IF "GEO_ID" \in Range(df.columns) THEN "GEO_ID" ELSE "FIPS"

HasPct(df) == PctCol(df) \in Range(df.columns)
Rows(df) == 1..NRows(df)
PctAt(df, i) == df.data[i][PctCol(df)]
TotalAt(df, i) == df.data[i][TotalCol(df)]
TransitAt(df, i) == df.data[i][TransitCol(df)]
IdAt(df, i) == df.data[i][IdCol(df)]

Hundred == <<100, 1>>
Zero == <<0, 1>>

\* ---------------------------------------------------------------- C1
UndefinedIffZeroTotal(df) ==
    HasPct(df) => \A i \in Rows(df) : IsNaN(PctAt(df, i)) <=> TotalAt(df, i) = 0

\* C1 (as claimed): in each survey-year table, once the percentage is
\* derived, a row's percentage is NaN exactly when its total count is 0.
C1_UndefinedIffZeroTotal ==
    /\ UndefinedIffZeroTotal(ACS_22B)
    /\ UndefinedIffZeroTotal(ACS_10B)

\* ---------------------------------------------------------------- C2
PercentInRange(df) ==
    HasPct(df) =>
        \A i \in Rows(df) :
            ~IsNaN(PctAt(df, i)) =>
                /\ TotalAt(df, i) > 0
                /\ PctAt(df, i) = Norm(100 * TransitAt(df, i), TotalAt(df, i))
                /\ FLe(Zero, PctAt(df, i))
                /\ FLe(PctAt(df, i), Hundred)

PercentOfCounts(df) ==
    HasPct(df) =>
        \A i \in Rows(df) :
            /\ TotalAt(df, i) > 0 =>
                   /\ PctAt(df, i) = Norm(100 * TransitAt(df, i), TotalAt(df, i))
                   /\ FLe(Zero, PctAt(df, i))
                   /\ FLe(PctAt(df, i), Hundred) <=> TransitAt(df, i) <= TotalAt(df, i)
            /\ TotalAt(df, i) = 0 =>
                   PctAt(df, i) = (IF TransitAt(df, i) > 0 THEN Inf ELSE NaN)

\* C2 (as claimed): every row with a defined percentage has the percentage
\* 100 * transit / total, and it lies in [0, 100].
C2_PercentInRange ==
    /\ PercentInRange(ACS_22B)
    /\ PercentInRange(ACS_10B)

\* C2 (amended): a row with total > 0 has the percentage 100 * transit /
\* total, which is at least 0 and is at most 100 exactly when transit <=
\* total; a row with total = 0 has the percentage +inf when transit > 0 and
\* NaN when transit = 0.
C2_PercentOfCounts ==
    /\ PercentOfCounts(ACS_22B)
    /\ PercentOfCounts(ACS_10B)

\* a derived table with a percentage above 100 and an infinite one
C2_Witness ==
    /\ Ran(19)
    /\ \E i \in Rows(ACS_10B) : FLt(Hundred, PctAt(ACS_10B, i)) /\ TotalAt(ACS_10B, i) > 0
    /\ \E i \in Rows(ACS_22B) : PctAt(ACS_22B, i) = Inf

\* ---------------------------------------------------------------- C3
\* the percentage column of a relabelled table
Pcts(df) == Column(df, "Percent Transit Users")
\* the rows of df with a defined percentage
Defined(df) == LET pct == Pcts(df) IN {i \in Rows(df) : ~IsNaN(pct[i])}
\* the rank of row i, once Rank is the index
RankAt(df, i) == df.index[i]

RankIsBijection(df) ==
    LET D == Defined(df)
        K == Cardinality(D)
        pct == Pcts(df)
        rank == df.index
    IN  /\ \A i \in D : \E k \in 1..K : rank[i] = FromInt(k)
        /\ \A i, j \in D : i # j => rank[i] # rank[j]
        /\ \A k \in 1..K : \E i \in D : rank[i] = FromInt(k)
        /\ \A i, j \in D : FLt(pct[j], pct[i]) => FLt(rank[i], rank[j])
        /\ \A i \in Rows(df) \ D : \A k \in 1..K : rank[i] # FromInt(k)

\* C3 (as claimed): in each ranked table, Rank is a bijection from the rows
\* with a defined percentage onto 1..K, descending by percentage, and the
\* rows with an undefined percentage have no rank in 1..K.
C3_RankBijection ==
    /\ Ran(26) => RankIsBijection(ACS_22B)
    /\ Ran(27) => RankIsBijection(ACS_10B)

RankIsAverage(df) ==
    LET D == Defined(df)
        K == Cardinality(D)
        pct == Pcts(df)
        rank == df.index
        greater(i) == Cardinality({j \in D : FLt(pct[i], pct[j])})
        equal(i) == Cardinality({j \in D : pct[j] = pct[i]})
    IN  /\ \A i \in D :
               /\ FLe(FromInt(1), rank[i]) /\ FLe(rank[i], FromInt(K))
               /\ FMul(rank[i], FromInt(2)) = FromInt(2 * greater(i) + equal(i) + 1)
        /\ \A i, j \in D :
               /\ FLt(pct[j], pct[i]) => FLt(rank[i], rank[j])
               /\ pct[j] = pct[i] => rank[i] = rank[j]
        /\ (\A i, j \in D : i # j => pct[i] # pct[j]) => RankIsBijection(df)
        /\ \A i \in Rows(df) \ D : IsNaN(rank[i])

\* C3 (amended): in each ranked table a row with a larger percentage has a
\* smaller rank, rows with equal percentages share one rank, the mean of the
\* positions they take among the K defined rows in descending order (it lies
\* in [1, K] and may be a half), so Rank is a bijection onto 1..K exactly when
\* no two defined percentages are equal; a row with an undefined percentage
\* has the rank NaN.
C3_RankAverage ==
    /\ Ran(26) => RankIsAverage(ACS_22B)
    /\ Ran(27) => RankIsAverage(ACS_10B)

\* a ranked table with two defined rows of equal percentage
C3_Witness ==
    /\ Ran(27)
    /\ \E i, j \in Defined(ACS_22B) :
           /\ i # j
           /\ PctAt(ACS_22B, i) = PctAt(ACS_22B, j)
           /\ TotalAt(ACS_22B, i) # TotalAt(ACS_22B, j)
    /\ \E i, j \in Defined(ACS_10B) : i # j /\ RankAt(ACS_10B, i) = RankAt(ACS_10B, j)

\* ---------------------------------------------------------------- C4
\* the pairs of a polygon feature and a commuting row with equal keys
Matches(acs) ==
    {p \in (1..Len(geojson)) \X Rows(acs) :
        StatePrefix \o CountyPrefix \o geojson[p[1]].CT20 = acs.data[p[2]]["FIPS"]}

\* row j of the joined table is feature g joined to row r of acs
IsPair(joined, j, acs, g, r) ==
    /\ joined.data[j]["CT20"] = geojson[g].CT20
    /\ joined.data[j]["geometry"] = geojson[g].geometry
    /\ joined.data[j]["FIPS"] = StatePrefix \o CountyPrefix \o geojson[g].CT20
    /\ \A c \in Range(NewNames) : joined.data[j][c] = acs.data[r][c]

JoinIsExact(joined, acs) ==
    /\ \A j \in Rows(joined) : \E p \in Matches(acs) : IsPair(joined, j, acs, p[1], p[2])
    /\ \A p \in Matches(acs) : \E j \in Rows(joined) : IsPair(joined, j, acs, p[1], p[2])
    /\ NRows(joined) = Cardinality(Matches(acs))

\* C4: for both years the joined table holds exactly the pairs of a polygon
\* feature and a commuting row with '06' + '037' + the feature's own CT20
\* equal to the row's FIPS: every joined row is such a pair, every such pair
\* is a joined row, and nothing else is.
C4_JoinInnerKeyExact ==
    /\ Ran(38) => JoinIsExact(tracts_transit22, ACS_22B)
    /\ Ran(39) => JoinIsExact(tracts_transit10, ACS_10B)

\* joined tables with a matched pair, a feature without a commuting row and
\* a commuting row without a feature
C4_Witness ==
    /\ Ran(39)
    /\ NRows(tracts_transit22) > 0 /\ NRows(tracts_transit10) > 0
    /\ \E g \in 1..Len(geojson) : \A p \in Matches(ACS_10B) : p[1] # g
    /\ \E r \in Rows(ACS_10B) : \A p \in Matches(ACS_10B) : p[2] # r

\* ---------------------------------------------------------------- C5
\* the percentage column of df, the same column without its NaN rows, and
\* with 0.0 in their place
PctSeries(df) == GetCol(df, "Percent Transit Users")
DefinedOnly(df) ==
    LET pct == Pcts(df)
        keep == SelectSeq([i \in 1..NRows(df) |-> i], LAMBDA i : ~IsNaN(pct[i]))
    IN  Series([k \in 1..Len(keep) |-> df.index[keep[k]]],
               [k \in 1..Len(keep) |-> pct[keep[k]]])
ZeroFilled(df) ==
    LET pct == Pcts(df)
    IN  Series(df.index, [i \in 1..NRows(df) |-> IF IsNaN(pct[i]) THEN Zero ELSE pct[i]])

\* how often x is a value of the sequence v
Times(v, x) == Cardinality({i \in 1..Len(v) : v[i] = x})

\* the column {2.0, 4.0, 6.0, NaN, NaN}
IsExampleColumn(df) ==
    LET v == PctSeries(df).values
    IN  /\ Len(v) = 5
        /\ Times(v, <<2, 1>>) = 1 /\ Times(v, <<4, 1>>) = 1 /\ Times(v, <<6, 1>>) = 1
        /\ Times(v, NaN) = 2

\* mean, median and describe of df as the cells displayed them are those of
\* the defined values alone
StatsSkipUndefined(df, meanCell, medianCell, describeCell) ==
    LET only == DefinedOnly(df)
        pct == only.values
        shown == Out[describeCell][1]
    IN  /\ Out[meanCell] = <<SeriesMean(only)>>
        /\ Out[medianCell] = <<SeriesMedian(only)>>
        /\ shown = describe(only)
        /\ shown.count = Len(pct)
        /\ shown.mean = Out[meanCell][1]
        /\ (\A i \in 1..Len(pct) : IsFinite(pct[i])) => shown.q50 = Out[medianCell][1]
        /\ (/\ Len(pct) # NRows(df)
            /\ \A i \in 1..Len(pct) : IsFinite(pct[i])
            /\ \E i \in 1..Len(pct) : FLt(Zero, pct[i]))
               => /\ Out[meanCell] # <<SeriesMean(ZeroFilled(df))>>
                  /\ shown.count # NRows(df)
        /\ IsExampleColumn(df)
               => /\ Out[meanCell] = <<(<<4, 1>>)>>
                  /\ Out[medianCell] = <<(<<4, 1>>)>>
                  /\ shown.count = 3
                  /\ shown.min = <<2, 1>>
                  /\ shown.max = <<6, 1>>
                  /\ shown.q25 = <<3, 1>>
                  /\ shown.q75 = <<5, 1>>
                  /\ shown.var = <<4, 1>>

\* C5: the mean, the median and every entry of describe of the percentage
\* column are taken over the defined values only; the undefined rows are left
\* out and never read as zero; {2.0, 4.0, 6.0, NaN, NaN} gives mean 4.0,
\* median 4.0 and count 3.
C5_StatsSkipUndefined ==
    Ran(34) => /\ StatsSkipUndefined(ACS_22B, 28, 31, 33)
               /\ StatsSkipUndefined(ACS_10B, 29, 32, 34)

\* the statistics of the column {2.0, 4.0, 6.0, NaN, NaN} have been displayed
C5_Witness == Ran(34) /\ IsExampleColumn(ACS_22B) /\ Out[33][1].count = 3

\* ---------------------------------------------------------------- C6
\* the columns the script takes from an extract
Expected == {"GEO_ID", "B08301_010E", "B08301_001E"}
Lacks(file) == ~(Expected \subseteq Range(file.header))

\* cell 14, the first projection, has been attempted
Projected == Ran(14) \/ raised # ""

NothingFilled(df) ==
    Range(df.columns) \cap Range(CsvHeader) \subseteq Range(file22.header)

NoTableWithoutColumns ==
    /\ Lacks(file22) =>
           /\ pc <= 14
           /\ raised \in {"", "KeyError"}
           /\ ACS_22B = EmptyFrame /\ ACS_10B = EmptyFrame
    /\ ~Lacks(file22) => raised = ""
    /\ NothingFilled(ACS_22B) /\ NothingFilled(ACS_10B)

C7_TablesFromOwnFiles ==
    Ran(9) => /\ ACS_22 = read_csv(file22, {"GEO_ID"})
              /\ ACS_10 = read_csv(file10, {"GEO_ID"})

\* ---------------------------------------------------------------- C8
OrderedByRank(df) ==
    /\ \A i \in 1..(NRows(df) - 1) :
           \/ IsNaN(RankAt(df, i + 1))
           \/ (~IsNaN(RankAt(df, i)) /\ FLe(RankAt(df, i), RankAt(df, i + 1)))
    /\ \A i, j \in Defined(df) : i < j => FLe(PctAt(df, j), PctAt(df, i))
    /\ \A i \in Rows(df) \ Defined(df) : \A j \in Defined(df) : j < i
    /\ \A i \in Rows(df) \ Defined(df) : IsNaN(RankAt(df, i))
    /\ \A i \in Rows(df) :
           RankAt(df, i) = FromInt(1) => \A j \in Defined(df) : FLe(PctAt(df, j), PctAt(df, i))
    /\ Defined(df) # {} => \A j \in Defined(df) : FLe(PctAt(df, j), PctAt(df, 1))

CountRows(df) == {<<IdAt(df, i), TransitAt(df, i), TotalAt(df, i)>> : i \in Rows(df)}
FileRows(f) ==
    {<<f.records[i]["GEO_ID"], f.records[i]["B08301_010E"], f.records[i]["B08301_001E"]>> :
        i \in 1..Len(f.records)}

MissingStaysMissing(df) ==
    HasPct(df) => \A i \in Rows(df) : TotalAt(df, i) = 0 => IsNaN(PctAt(df, i))

RowsKept(df) ==
    HasPct(df) => /\ CountRows(df) = FileRows(file22)
                  /\ NRows(df) = Len(file22.records)

\* C9 (as claimed): in every table after the derivation (relabelled, ranked
\* and sorted, joined) a row with total 0 has a missing percentage, and the
\* steps before the join keep the rows of the table as they were read.
C9_MissingStaysMissing ==
    /\ MissingStaysMissing(ACS_22B) /\ MissingStaysMissing(ACS_10B)
    /\ MissingStaysMissing(tracts_transit22) /\ MissingStaysMissing(tracts_transit10)
    /\ RowsKept(ACS_22B) /\ RowsKept(ACS_10B)

\* ---------------------------------------------------------------- C10
\* the rows of df as a set
RowSet(df) == {df.data[i] : i \in Rows(df)}

FilteredIsDefinedOnly(joined, filtered) ==
    /\ RowSet(filtered) \subseteq RowSet(joined)
    /\ \A i \in Rows(joined) : TotalAt(joined, i) # 0 => joined.data[i] \in RowSet(filtered)
    /\ \A i \in Rows(filtered) : TotalAt(filtered, i) # 0

\* C10 (as claimed): the filtered table of a year is a part of its joined
\* table, holds every joined row with a total other than 0 and no joined row
\* with total 0.
C10_FilteredDefinedOnly ==
    Ran(43) => /\ FilteredIsDefinedOnly(tracts_transit22, tracts_transit22b)
               /\ FilteredIsDefinedOnly(tracts_transit10, tracts_transit10b)

====
